---- MODULE Spec2Model ----
(***************************************************************************)
(* A model of the job-control shell of src/src/lab.c and src/app/main.c:  *)
(* the tokenizer (trim_white, cmd_parse), the builtin dispatcher           *)
(* (do_builtin), the job table (add_job, remove_job, update_job_status,    *)
(* print_jobs), the launcher (execute_command) and the session loop (main).*)
(*                                                                         *)
(* Text is modelled as sequences of characters; a character is a string    *)
(* (a letter, "&", " ") or one of the named control characters below.      *)
(***************************************************************************)
EXTENDS Integers, Sequences, FiniteSets, TLC

\* ------------------------------------------------------------------------
\* Bounds of the model.
\* ------------------------------------------------------------------------
\* Number of job slots (lab.c:28 sets 100; scaled down).
MAX_JOBS == 2
\* Child pids are 1..MaxPid; a pid is free again once its process is reaped.
MaxPid == 2
\* add_job is not called once next_job_id has passed this (job-table spec).
MaxJobId == 3
\* Longest line drawn character by character in the tokenizer specification.
MaxLineLen == 5
\* Initial capacity of cmd_parse's token array in the tokenizer
\* specification (lab.c:161 sets 64; scaled down so that lines of
\* MaxLineLen characters reach it).
ParseCap == 2
\* Bytes of one char* in the tokenizer specification (8 on LP64; scaled).
ParsePtr == 2

\* ------------------------------------------------------------------------
\* Program constants.
\* ------------------------------------------------------------------------
\* lab.c:161  int bufsize = 64, the session's token-array capacity.
BUFSIZE == 64
\* lab.c:166  sizeof(char*), the session's pointer width in bytes.
PTRSIZE == 8

\* ------------------------------------------------------------------------
\* Characters.
\* ------------------------------------------------------------------------
SP  == " "
TAB == "TAB"
CR  == "CR"
NL  == "NL"
BEL == "BEL"
VT  == "VT"
FF  == "FF"
\* The string terminator, a byte of a stored non-null pointer, a byte that
\* malloc left uninitialised.
NUL == "NUL"
PTRBYTE == "PTRBYTE"
UNINIT == "UNINIT"

\* isspace() in the C locale (lab.c:225, 232).
IsSpace(c) == c \in {SP, TAB, NL, VT, FF, CR}

\* The delimiter string " \t\r\n\a" given to strtok (lab.c:178, 196).
Delims == {SP, TAB, CR, NL, BEL}

\* ------------------------------------------------------------------------
\* trim_white (lab.c:221-238).  The result is the text from the first
\* non-space character to the last one.
\* ------------------------------------------------------------------------
RECURSIVE SkipSpace(_, _)
SkipSpace(line, i) ==
    IF i <= Len(line) /\ IsSpace(line[i]) THEN SkipSpace(line, i + 1) ELSE i

RECURSIVE TrimEnd(_, _, _)
TrimEnd(line, first, end) ==
    IF end > first /\ IsSpace(line[end]) THEN TrimEnd(line, first, end - 1)
    ELSE end

trim_white(line) ==
    LET first == SkipSpace(line, 1) IN
    IF first > Len(line) THEN << >>
    ELSE SubSeq(line, first, TrimEnd(line, first, Len(line)))

\* ------------------------------------------------------------------------
\* cmd_parse (lab.c:158-201).
\*
\* One malloc block holds the token array (bufsize pointers) followed by the
\* copy of the line.  mem models the bytes from the start of that copy:
\* mem[1] is buffer[0].  Token pointers are indices into mem.  When the
\* array is grown in place, entry k >= cap0 of the array lies on the bytes
\* (k - cap0) * psz .. of the copy, which is never moved (lab.c:192-193).
\* ------------------------------------------------------------------------
RECURSIVE SkipDelims(_, _)
SkipDelims(mem, i) ==
    IF i <= Len(mem) /\ mem[i] \in Delims THEN SkipDelims(mem, i + 1) ELSE i

RECURSIVE ScanToken(_, _)
ScanToken(mem, i) ==
    IF i <= Len(mem) /\ mem[i] \notin Delims /\ mem[i] # NUL
    THEN ScanToken(mem, i + 1) ELSE i

\* strtok continuing at save pointer sp: tok = 0 stands for NULL.
strtok(mem, sp) ==
    LET b == SkipDelims(mem, sp) IN
    IF b > Len(mem) \/ mem[b] = NUL THEN [tok |-> 0, mem |-> mem, sp |-> b]
    ELSE LET e == ScanToken(mem, b) IN
         IF e > Len(mem) \/ mem[e] = NUL
         THEN [tok |-> b, mem |-> mem, sp |-> e]
         ELSE [tok |-> b, mem |-> [mem EXCEPT ![e] = NUL], sp |-> e + 1]

\* tokens[k] = value (k counted from 0), seen from the bytes of the line
\* copy: entries below cap0 lie before the copy; entry k >= cap0 exists only
\* after a realloc, and if the block was grown in place it overlays the copy.
StorePtr(mem, k, cap0, psz, byte) ==
    IF k < cap0 THEN mem
    ELSE [i \in 1..Len(mem) |->
            IF i > (k - cap0) * psz /\ i <= (k - cap0 + 1) * psz
            THEN byte ELSE mem[i]]

RECURSIVE ReadStr(_, _)
ReadStr(mem, i) ==
    IF i > Len(mem) \/ mem[i] = NUL THEN << >>
    ELSE <<mem[i]>> \o ReadStr(mem, i + 1)

\* The while loop of lab.c:179-197, s = [mem, sp, tok, ptrs].
RECURSIVE ParseLoop(_, _, _, _)
ParseLoop(s, cap0, psz, inplace) ==
    IF s.tok = 0 THEN s
    ELSE LET k    == Len(s.ptrs)
             mem1 == IF inplace THEN StorePtr(s.mem, k, cap0, psz, PTRBYTE)
                     ELSE s.mem
             t    == strtok(mem1, s.sp)
         IN ParseLoop([mem |-> t.mem, sp |-> t.sp, tok |-> t.tok,
                       ptrs |-> Append(s.ptrs, s.tok)], cap0, psz, inplace)

\* cmd_parse on line, with initial capacity cap0 and pointer width psz.
\* The result is the argument vector as the caller reads it: the strings at
\* tokens[0], tokens[1], ... up to the null entry.
\*   - fewer than cap0 tokens: no realloc.
\*   - otherwise realloc has run (lab.c:183-187).  moved = FALSE: the block
\*     grew in place, and the array now overlays the copy of the line.
\*     moved = TRUE: the block was moved and freed, and every token points
\*     into the freed block; stale is the set of tokens whose old bytes have
\*     been reused by then (they read back as garbage, modelled as the text
\*     <<UNINIT>>), the others still read back as written.
cmd_parse_at(line, cap0, psz, moved, stale) ==
    LET \* the line, its terminator, and room for the array entries from
        \* cap0 on: a line of n characters has at most (n + 1) \div 2 tokens
        most == (Len(line) + 1) \div 2 + 1
        size == Len(line) + 1 + (IF most > cap0 THEN psz * (most - cap0) ELSE 0)
        mem0 == [i \in 1..size |->
                   IF i <= Len(line) THEN line[i]
                   ELSE IF i = Len(line) + 1 THEN NUL ELSE UNINIT]
        first == strtok(mem0, 1)
        clean == ParseLoop([mem |-> first.mem, sp |-> first.sp,
                            tok |-> first.tok, ptrs |-> << >>],
                           cap0, psz, FALSE)
        n     == Len(clean.ptrs)
    IN  IF n < cap0
        THEN [i \in 1..n |-> ReadStr(clean.mem, clean.ptrs[i])]
        ELSE IF moved
        THEN [i \in 1..n |-> IF i \in stale THEN <<UNINIT>>
                             ELSE ReadStr(clean.mem, clean.ptrs[i])]
        ELSE LET over == ParseLoop([mem |-> first.mem, sp |-> first.sp,
                                    tok |-> first.tok, ptrs |-> << >>],
                                   cap0, psz, TRUE)
                 m    == Len(over.ptrs)
                 fin  == StorePtr(over.mem, m, cap0, psz, NUL)
             IN [i \in 1..m |-> ReadStr(fin, over.ptrs[i])]

\* The capacity and pointer width of the running shell.  The session's lines
\* have far fewer than BUFSIZE tokens, so realloc's choice is never taken.
cmd_parse(line) == cmd_parse_at(line, BUFSIZE, PTRSIZE, FALSE, {})

\* ------------------------------------------------------------------------
\* do_builtin (lab.c:250-292).  "exit" does not return: the process ends.
\* The result names what happened: "exit", the builtin that ran, or "none"
\* for the return of false.
\* ------------------------------------------------------------------------
Str_exit    == <<"e", "x", "i", "t">>
Str_cd      == <<"c", "d">>
Str_history == <<"h", "i", "s", "t", "o", "r", "y">>
Str_pwd     == <<"p", "w", "d">>
Str_ls      == <<"l", "s">>
Str_jobs    == <<"j", "o", "b", "s">>

\* (do_builtin_ls_any: a do_builtin that takes "ls" whatever follows it.)
do_builtin_ls_any(argv) ==
    IF Len(argv) = 0 THEN "none"
    ELSE IF argv[1] = Str_exit THEN "exit"
    ELSE IF argv[1] = Str_cd THEN "cd"
    ELSE IF argv[1] = Str_history THEN "history"
    ELSE IF argv[1] = Str_pwd THEN "pwd"
    ELSE IF argv[1] = Str_ls THEN "ls"
    ELSE IF argv[1] = Str_jobs THEN "jobs"
    ELSE "none"

do_builtin(argv) ==
    IF Len(argv) = 0 THEN "none"                          \* lab.c:251
    ELSE IF argv[1] = Str_exit THEN "exit"                \* lab.c:253-255
    ELSE IF argv[1] = Str_cd THEN "cd"                    \* lab.c:256-258
    ELSE IF argv[1] = Str_history THEN "history"          \* lab.c:259-261
    ELSE IF argv[1] = Str_pwd THEN "pwd"                  \* lab.c:262-269
    ELSE IF argv[1] = Str_ls /\ Len(argv) = 1 THEN "ls"   \* lab.c:270-285
    ELSE IF argv[1] = Str_jobs THEN "jobs"                \* lab.c:286-288
    ELSE "none"                                           \* lab.c:291

\* ------------------------------------------------------------------------
\* The body of the session loop after readline (main.c:76-94): what the
\* iteration does with a line.  kind is "skip" (nothing is parsed), "exit",
\* "builtin" (do_builtin returned true) or "exec" (execute_command is called
\* with argv).
\* ------------------------------------------------------------------------
MainDispatch(line) ==
    IF Len(line) = 0                                       \* main.c:77
    THEN [kind |-> "skip", name |-> "none", argv |-> << >>]
    ELSE LET trimmed_line == trim_white(line) IN           \* main.c:81
         IF Len(trimmed_line) = 0                          \* main.c:82
         THEN [kind |-> "skip", name |-> "none", argv |-> << >>]
         ELSE LET args == cmd_parse(trimmed_line)          \* main.c:84
                  b    == do_builtin(args)                 \* main.c:86
              IN IF b = "exit"
                 THEN [kind |-> "exit", name |-> b, argv |-> args]
                 ELSE IF b # "none"
                 THEN [kind |-> "builtin", name |-> b, argv |-> args]
                 ELSE [kind |-> "exec", name |-> b, argv |-> args]

\* ------------------------------------------------------------------------
\* Background detection of execute_command (lab.c:308-321): the first token
\* that is "&" or ends in '&' ends the scan.
\* ------------------------------------------------------------------------
\* execute_command's first test (lab.c:304).
\* (NeverReturnsEarly: an execute_command without that test.)
NeverReturnsEarly(v) == FALSE

ReturnsEarly(v) == Len(v) = 0

IsAmpToken(t) == t = <<"&">> \/ (Len(t) > 0 /\ t[Len(t)] = "&")

RECURSIVE FirstAmp(_, _)
FirstAmp(argv, i) ==
    IF i > Len(argv) THEN 0
    ELSE IF IsAmpToken(argv[i]) THEN i
    ELSE FirstAmp(argv, i + 1)

DetectBackground(argv) ==
    LET i == FirstAmp(argv, 1) IN
    IF i = 0 THEN [is_background |-> FALSE, argv |-> argv]
    ELSE IF argv[i] = <<"&">>
    THEN [is_background |-> TRUE, argv |-> SubSeq(argv, 1, i - 1)]
    ELSE [is_background |-> TRUE,
          argv |-> [argv EXCEPT ![i] = SubSeq(argv[i], 1, Len(argv[i]) - 1)]]

\* ------------------------------------------------------------------------
\* The job table (lab.c:33-42).  A command is << >> for NULL, or <<text>>
\* for a pointer to an owned copy of text.
\* ------------------------------------------------------------------------
Slots == 1..MAX_JOBS
Pids  == 1..MaxPid

EmptyJob ==
    [job_id |-> 0, pid |-> 0, command |-> << >>,
     is_background |-> FALSE, is_done |-> FALSE]

\* initialize_jobs (lab.c:49-57).
initialize_jobs == [i \in Slots |-> EmptyJob]

\* The first slot, in scan order, that satisfies the test; 0 if none.
RECURSIVE FirstSlot(_, _, _)
FirstSlot(js, id, i) ==
    IF i > MAX_JOBS THEN 0
    ELSE IF js[i].job_id = id THEN i
    ELSE FirstSlot(js, id, i + 1)

\* add_job (lab.c:67-79): the table, the counter and the returned value.
\* (add_job_full_bumps: a failing add_job that still advances the counter.)
add_job_full_bumps(js, next) ==
    [jobs |-> js, next_job_id |-> next + 1, ret |-> -1]

add_job_full(js, next) ==
    [jobs |-> js, next_job_id |-> next, ret |-> -1]          \* lab.c:78

\* (add_job_no_increment: an add_job that hands out next_job_id without
\* advancing it.)
add_job_no_increment(js, next, p, command, is_bg) ==
    LET i == FirstSlot(js, 0, 1) IN
    IF i = 0 THEN add_job_full(js, next)
    ELSE [jobs |-> [js EXCEPT ![i] =
                      [job_id |-> next, pid |-> p, command |-> <<command>>,
                       is_background |-> is_bg, is_done |-> FALSE]],
          next_job_id |-> next,
          ret |-> next]

\* (add_job_slot_id: an add_job that numbers a job by its slot.)
add_job_slot_id(js, next, p, command, is_bg) ==
    LET i == FirstSlot(js, 0, 1) IN
    IF i = 0 THEN add_job_full(js, next)
    ELSE [jobs |-> [js EXCEPT ![i] =
                      [job_id |-> i, pid |-> p, command |-> <<command>>,
                       is_background |-> is_bg, is_done |-> FALSE]],
          next_job_id |-> next,
          ret |-> i]

add_job(js, next, p, command, is_bg) ==
    LET i == FirstSlot(js, 0, 1) IN                          \* lab.c:68-69
    IF i = 0 THEN add_job_full(js, next)
    ELSE [jobs |-> [js EXCEPT ![i] =
                      [job_id |-> next, pid |-> p,           \* lab.c:70-71
                       command |-> <<command>>,              \* lab.c:72
                       is_background |-> is_bg,              \* lab.c:73
                       is_done |-> FALSE]],                  \* lab.c:74
          next_job_id |-> next + 1,                          \* lab.c:70
          ret |-> next]                                      \* lab.c:75

\* remove_job (lab.c:86-98).
\* (remove_job_id_only: a remove_job that frees the command and clears the
\* id but leaves pid and the flags behind.)
remove_job_id_only(js, id) ==
    LET i == FirstSlot(js, id, 1) IN
    IF i = 0 THEN js
    ELSE [js EXCEPT ![i].job_id = 0, ![i].command = << >>]

remove_job(js, id) ==
    LET i == FirstSlot(js, id, 1) IN                         \* lab.c:87-88
    IF i = 0 THEN js ELSE [js EXCEPT ![i] = EmptyJob]        \* lab.c:89-95

\* print_jobs (lab.c:123-133): the lines printed, in slot order.
\* (JobLine_pid_always: a print_jobs that prints the pid of a done job too.)
JobLine_pid_always(j) ==
    [id |-> j.job_id, pid |-> j.pid,
     state |-> IF j.is_done THEN "Done" ELSE "Running", command |-> j.command]

JobLine(j) ==
    IF j.is_done
    THEN [id |-> j.job_id, pid |-> 0, state |-> "Done",
          command |-> j.command]                             \* lab.c:127
    ELSE [id |-> j.job_id, pid |-> j.pid, state |-> "Running",
          command |-> j.command]                             \* lab.c:129

RECURSIVE PrintFrom(_, _)
PrintFrom(js, i) ==
    IF i > MAX_JOBS THEN << >>
    ELSE IF js[i].job_id # 0 THEN <<JobLine(js[i])>> \o PrintFrom(js, i + 1)
    ELSE PrintFrom(js, i + 1)

print_jobs(js) == PrintFrom(js, 1)

\* ------------------------------------------------------------------------
\* Child processes.  proc[p] describes the process with pid p:
\*   st    "free" (no such process), a position of the child's code before
\*         exec ("c_setpgid", "c_tcsetpgrp", "c_signal", "c_exec"),
\*         "running" (the external command), "stopped", "zombie" (exited and
\*         not yet waited for);
\*   pgid  its process group (0 if free);
\*   fg    the child's copy of !is_background;
\*   dfl   the job-control signals that have the default disposition (the
\*         others are ignored, as the shell left them).
\* ------------------------------------------------------------------------
JobControlSignals == {"SIGINT", "SIGQUIT", "SIGTSTP", "SIGTTIN", "SIGTTOU"}

\* The child's signal calls (lab.c:331-335) on the set d of signals that
\* have the default disposition.
\* (ResetSignals_misses_one: the child without the call for SIGTTOU.)
ResetSignals_misses_one(d) ==
    d \cup {"SIGINT", "SIGQUIT", "SIGTSTP", "SIGTTIN"}

ResetSignals(d) ==
    d \cup {"SIGINT", "SIGQUIT", "SIGTSTP", "SIGTTIN", "SIGTTOU"}

FreeProc == [st |-> "free", pgid |-> 0, fg |-> FALSE, dfl |-> {}]

\* waitpid(p, &status, WNOHANG) as update_job_status calls it (lab.c:109):
\* p for a child that has exited (it is reaped), 0 for one that has not,
\* -1 if the caller has no such child.
waitpid_nohang(pr, p) ==
    IF p \notin DOMAIN pr \/ pr[p].st = "free" THEN [result |-> -1, proc |-> pr]
    ELSE IF pr[p].st = "zombie"
    THEN [result |-> p, proc |-> [pr EXCEPT ![p] = FreeProc]]
    ELSE [result |-> 0, proc |-> pr]

\* The slots update_job_status polls (lab.c:107).
\* (Polled_ignores_done: a poll of every occupied slot.)
Polled_ignores_done(j) == j.job_id # 0

Polled(j) == j.job_id # 0 /\ ~j.is_done

\* One iteration of the loop of update_job_status (lab.c:107-114) on slot i.
\* s = [jobs, proc, done (the ids whose "[id] Done command" line was
\* printed, in order), polled (the slots on which waitpid was called)].
PollSlot(s, i) ==
    IF ~Polled(s.jobs[i]) THEN s
    ELSE LET w == waitpid_nohang(s.proc, s.jobs[i].pid) IN   \* lab.c:109
         IF w.result = s.jobs[i].pid                         \* lab.c:110
         THEN [jobs |-> [s.jobs EXCEPT ![i].is_done = TRUE],
               proc |-> w.proc,
               done |-> Append(s.done, s.jobs[i].job_id),
               polled |-> s.polled \cup {i}]
         ELSE [s EXCEPT !.proc = w.proc, !.polled = @ \cup {i}]

\* update_job_status (lab.c:105-116) from slot i on.  The state after one
\* iteration is bound as a value (t) before the next iteration reads it.
RECURSIVE UpdateFrom(_, _)
UpdateFrom(s, i) ==
    IF i > MAX_JOBS THEN s
    ELSE CHOOSE r \in {UpdateFrom(t, i + 1) : t \in {PollSlot(s, i)}} : TRUE

\* (update_job_status_stops_early: a pass that ends at the first job it
\* finds exited.)
RECURSIVE UpdateFirstOnly(_, _)
UpdateFirstOnly(s, i) ==
    IF i > MAX_JOBS THEN s
    ELSE CHOOSE r \in {IF t.done # << >> THEN t
                       ELSE UpdateFirstOnly(t, i + 1) :
                          t \in {PollSlot(s, i)}} : TRUE

update_job_status_stops_early(js, pr) ==
    UpdateFirstOnly([jobs |-> js, proc |-> pr, done |-> << >>,
                     polled |-> {}], 1)

\* (update_job_status_frees_done: a pass that also empties the slots of the
\* jobs it finds done.)
update_job_status_frees_done(js, pr) ==
    LET u == UpdateFrom([jobs |-> js, proc |-> pr, done |-> << >>,
                         polled |-> {}], 1) IN
    [u EXCEPT !.jobs = [i \in Slots |-> IF u.jobs[i].is_done THEN EmptyJob
                                        ELSE u.jobs[i]]]

update_job_status(js, pr) ==
    UpdateFrom([jobs |-> js, proc |-> pr, done |-> << >>, polled |-> {}], 1)

\* ------------------------------------------------------------------------
\* State.
\* ------------------------------------------------------------------------
VARIABLES
    pc,             \* where the shell is (main.c:65-98, lab.c:303-366)
    line,           \* the line given to the tokenizer (SpecParse)
    argv,           \* the argument vector (main.c:84, lab.c:303)
    builtin,        \* what do_builtin did with it (main.c:86)
    is_background,  \* lab.c:309
    pid,            \* lab.c:323, the value fork returned to the parent
    job_id,         \* the value of the last add_job call (lab.c:360)
    jobs,           \* lab.c:41
    next_job_id,    \* lab.c:42
    proc,           \* the shell's child processes
    tfg,            \* the foreground process group of sh->shell_terminal
    notices,        \* per job id, the "[id] Done command" lines printed by
                    \* update_job_status so far (lab.c:112)
    polled_done,    \* whether waitpid was ever called for a job already done
    last,           \* the last job-table calls: "add", "add_remove", "other"
    jobs0,          \* the table before the last add_job call
    diag,           \* what the iteration wrote to stderr: "none", "fork", "cd"
    ign             \* the job-control signals the shell ignores

vars == <<pc, line, argv, builtin, is_background, pid, job_id, jobs, next_job_id,
          proc, tfg, notices, polled_done, last, jobs0, diag, ign>>

\* The shell's own pid, which sh_init makes its process group (lab.c:423-424).
ShellPid == MaxPid + 1

Commands == {<<"s", SP, "&">>}

\* The notices printed by one update_job_status call, added to the history,
\* and whether that call polled a job that was done.
RECURSIVE CountIn(_, _)
CountIn(seq, x) ==
    IF seq = << >> THEN 0
    ELSE (IF seq[1] = x THEN 1 ELSE 0) + CountIn(Tail(seq), x)

Noted(u) == [id \in DOMAIN notices |-> notices[id] + CountIn(u.done, id)]

PolledDone(u) == \E i \in u.polled : jobs[i].is_done

\* The history of a job id starts when add_job returns it and ends when a
\* slot holding it is removed.
Registered(n, a) ==
    IF a.ret = -1 THEN n
    ELSE [id \in DOMAIN n \cup {a.ret} |-> IF id = a.ret THEN 0 ELSE n[id]]

Unregistered(n, js, id) ==
    IF FirstSlot(js, id, 1) = 0 THEN n
    ELSE [x \in DOMAIN n \ {id} |-> n[x]]

\* What the job-table calls leave alone.
SessionVars == <<pc, line, argv, builtin, is_background, pid, tfg, diag, ign>>

\* ------------------------------------------------------------------------
\* The job table driven by arbitrary calls: SpecJobs.
\* last is "add" after an add_job call, "add_remove" after a remove_job call
\* that follows an add_job call and is given the id it returned, "other"
\* after any other call.
\* ------------------------------------------------------------------------
InitJobs ==
    /\ pc = "api"
    /\ line = << >>
    /\ argv = << >>
    /\ builtin = "none"
    /\ is_background = FALSE
    /\ pid = 0
    /\ job_id = 0
    /\ jobs = initialize_jobs
    /\ next_job_id = 1
    /\ proc = [p \in Pids |-> FreeProc]
    /\ tfg = ShellPid
    /\ notices = << >>
    /\ polled_done = FALSE
    /\ last = "other"
    /\ jobs0 = initialize_jobs
    /\ diag = "none"
    /\ ign = JobControlSignals                             \* lab.c:433-437

\* A child is forked and registered, as execute_command does (lab.c:323,
\* 360): the pid given to add_job is that of a new child.
JAddJob(p, command, is_bg) ==
    /\ next_job_id <= MaxJobId
    /\ proc[p].st = "free"
    /\ LET a == add_job(jobs, next_job_id, p, command, is_bg) IN
       /\ jobs' = a.jobs
       /\ next_job_id' = a.next_job_id
       /\ job_id' = a.ret
       /\ notices' = Registered(notices, a)
    /\ proc' = [proc EXCEPT ![p] = [st |-> "running", pgid |-> p,
                                    fg |-> FALSE, dfl |-> JobControlSignals]]
    /\ last' = "add"
    /\ jobs0' = jobs
    /\ UNCHANGED <<SessionVars, polled_done>>

JRemoveJob(id) ==
    /\ jobs' = remove_job(jobs, id)
    /\ notices' = Unregistered(notices, jobs, id)
    /\ last' = IF last = "add" /\ id = job_id THEN "add_remove" ELSE "other"
    /\ jobs0' = IF last = "add" /\ id = job_id THEN jobs0 ELSE initialize_jobs
    /\ job_id' = IF last = "add" /\ id = job_id THEN job_id ELSE 0
    /\ UNCHANGED <<SessionVars, next_job_id, proc, polled_done>>

JUpdateJobStatus ==
    /\ LET u == update_job_status(jobs, proc) IN
       /\ jobs' = u.jobs
       /\ proc' = u.proc
       /\ notices' = Noted(u)
       /\ polled_done' = (polled_done \/ PolledDone(u))
    /\ last' = "other"
    /\ jobs0' = initialize_jobs
    /\ job_id' = 0
    /\ UNCHANGED <<SessionVars, next_job_id>>

\* A running child exits.
JChildExit(p) ==
    /\ proc[p].st = "running"
    /\ proc' = [proc EXCEPT ![p].st = "zombie"]
    /\ UNCHANGED <<SessionVars, job_id, jobs, next_job_id, notices,
                   polled_done, last, jobs0, diag, ign>>

NextJobs ==
    \/ \E p \in Pids, command \in Commands : JAddJob(p, command, TRUE)
    \/ \E id \in 0..MaxJobId : JRemoveJob(id)
    \/ JUpdateJobStatus
    \/ \E p \in Pids : JChildExit(p)

SpecJobs == InitJobs /\ [][NextJobs]_vars

\* ------------------------------------------------------------------------
\* Claims on the job table (SpecJobs).
\* ------------------------------------------------------------------------
Occupied(i) == jobs[i].job_id # 0

TableFull == \A i \in Slots : Occupied(i)

AddJobStep == \E p \in Pids, command \in Commands : JAddJob(p, command, TRUE)

\* C1: in every state reached by add_job, remove_job and update_job_status
\* calls, no two occupied slots hold the same job id, and every occupied
\* slot's id lies in 1..next_job_id-1.
C1_LiveIdsUnique ==
    /\ \A i, j \in Slots :
          (i # j /\ Occupied(i) /\ Occupied(j))
             => jobs[i].job_id # jobs[j].job_id
    /\ \A i \in Slots :
          Occupied(i) => jobs[i].job_id \in 1..(next_job_id - 1)

\* Two live jobs, the later one in the earlier slot: a slot was freed by
\* remove_job and filled again.
C1_Witness ==
    /\ Occupied(1) /\ Occupied(2)
    /\ jobs[1].job_id > jobs[2].job_id

\* C2: on a full table add_job returns -1 and changes neither next_job_id
\* nor any field of any slot.
C2_FullAddNoEffect ==
    [][(TableFull /\ AddJobStep)
          => (job_id' = -1 /\ jobs' = jobs /\ next_job_id' = next_job_id)]_vars

\* add_job has just failed on a full table.
C2_Witness == last = "add" /\ job_id = -1 /\ TableFull

\* C3: add_job followed at once by remove_job of the returned id restores
\* every slot (the counter alone has advanced, by one); from an empty table
\* the table is empty again; print_jobs prints no line for that id.
C3_AddRemoveRestores ==
    [][(last = "add" /\ job_id # -1 /\ JRemoveJob(job_id))
          => /\ jobs' = jobs0
             /\ next_job_id' = job_id + 1
             /\ (jobs0 = initialize_jobs => print_jobs(jobs') = << >>)
             /\ \A k \in DOMAIN print_jobs(jobs') :
                   print_jobs(jobs')[k].id # job_id]_vars

\* A job was added to a table that held a finished job and removed again.
C3_Witness ==
    /\ last = "add_remove"
    /\ jobs = jobs0
    /\ \E i \in Slots : Occupied(i) /\ jobs[i].is_done

\* C4: for a registered job whose process has exited, over any number of
\* update_job_status calls is_done goes from false to true once (the first
\* call after the exit) and never back, one "[id] Done command" line is
\* printed, and a job that is done is never polled again.
C4_StateOk ==
    /\ \A id \in DOMAIN notices : notices[id] <= 1
    /\ \A i \in Slots :
          Occupied(i) => (jobs[i].is_done <=> notices[jobs[i].job_id] = 1)
    /\ ~polled_done

C4_StepOk ==
    /\ JUpdateJobStatus =>
          \A i \in Slots :
             (Occupied(i) /\ ~jobs[i].is_done
                /\ proc[jobs[i].pid].st = "zombie")
                => (jobs'[i].is_done /\ notices'[jobs[i].job_id] = 1)
    /\ \A i \in Slots :
          (jobs[i].is_done /\ jobs'[i].job_id = jobs[i].job_id)
             => jobs'[i].is_done

C4_DoneExactlyOnce == [](C4_StateOk) /\ [][C4_StepOk]_vars

\* A job is done and reported once, and its pid now belongs to a newer,
\* running child: polling it again would find that child.
C4_Witness ==
    \E i \in Slots :
       /\ Occupied(i) /\ jobs[i].is_done
       /\ notices[jobs[i].job_id] = 1
       /\ proc[jobs[i].pid].st = "running"

\* ------------------------------------------------------------------------
\* The tokenizer, the dispatcher and background detection applied to lines:
\* SpecParse.  A line is either parsed by cmd_parse with the scaled capacity
\* (PParse), or taken through the loop body (PDispatch) and, when the loop
\* calls execute_command, through its background detection (PDetect).
\* ------------------------------------------------------------------------
ParseChars == {"a", "&", SP, BEL, VT}

RECURSIVE SeqsUpTo(_, _)
SeqsUpTo(S, n) ==
    IF n = 0 THEN {<< >>}
    ELSE LET shorter == SeqsUpTo(S, n - 1) IN
         shorter \cup {Append(q, c) : q \in shorter, c \in S}

ParseLines == SeqsUpTo(ParseChars, MaxLineLen)

\* Lines that name builtins, near misses of them, and arguments.
NameLines ==
    {name \o rest :
       name \in {Str_exit, Str_cd, Str_history, Str_pwd, Str_ls, Str_jobs,
                 <<"c">>, <<"c", "d", "d">>, <<"l", "s", "s">>,
                 <<"j", "o", "b">>, <<"e", "x", "i", "t", "s">>,
                 <<"C", "D">>},
       rest \in {<< >>, <<SP, "a">>, <<SP, "a", SP, "a">>, <<SP, "&">>,
                 <<"&">>, <<SP, SP>>}}

\* Number of tokens cmd_parse finds on the line.
NumTokens(l) == Len(cmd_parse_at(l, Len(l) + 1, PTRSIZE, FALSE, {}))

ParseOnlyVars == <<pid, job_id, jobs, next_job_id, proc, tfg, notices,
                   polled_done, last, jobs0, diag, ign>>

InitParse ==
    /\ pc = "input"
    /\ line \in ParseLines \cup NameLines
    /\ argv = << >>
    /\ builtin = "none"
    /\ is_background = FALSE
    /\ pid = 0
    /\ job_id = 0
    /\ jobs = initialize_jobs
    /\ next_job_id = 1
    /\ proc = [p \in Pids |-> FreeProc]
    /\ tfg = ShellPid
    /\ notices = << >>
    /\ polled_done = FALSE
    /\ last = "other"
    /\ jobs0 = initialize_jobs
    /\ diag = "none"
    /\ ign = JobControlSignals                             \* lab.c:433-437

\* cmd_parse(line), lab.c:158-201, with realloc's choice.
PParse(moved, stale) ==
    /\ pc = "input"
    /\ argv' = cmd_parse_at(line, ParseCap, ParsePtr, moved, stale)
    /\ pc' = "parsed"
    /\ UNCHANGED <<line, builtin, is_background, ParseOnlyVars>>

\* The loop body on line, main.c:76-94.
PDispatch ==
    /\ pc = "input"
    /\ LET d == MainDispatch(line) IN
       /\ argv' = d.argv
       /\ builtin' = d.name
       /\ pc' = d.kind
    /\ UNCHANGED <<line, is_background, ParseOnlyVars>>

\* execute_command up to fork, lab.c:303-321.
PDetect ==
    /\ pc = "exec"
    /\ IF ReturnsEarly(argv)                                \* lab.c:304-306
       THEN /\ pc' = "returned"
            /\ UNCHANGED <<argv, is_background>>
       ELSE LET d == DetectBackground(argv) IN
            /\ pc' = "detected"
            /\ argv' = d.argv
            /\ is_background' = d.is_background
    /\ UNCHANGED <<line, builtin, ParseOnlyVars>>

NextParse ==
    \/ \E moved \in BOOLEAN, stale \in SUBSET (1..NumTokens(line)) :
          PParse(moved, stale)
    \/ PDispatch
    \/ PDetect

SpecParse == InitParse /\ [][NextParse]_vars

\* ------------------------------------------------------------------------
\* Claims on the tokenizer, the dispatcher and background detection
\* (SpecParse).
\* ------------------------------------------------------------------------
\* The maximal runs of non-delimiter characters of a line, in order.
RECURSIVE Runs(_)
Runs(l) ==
    IF l = << >> THEN << >>
    ELSE IF l[1] \in Delims THEN Runs(Tail(l))
    ELSE LET rest == Runs(Tail(l)) IN
         IF Len(l) > 1 /\ l[2] \notin Delims
         THEN <<(<<l[1]>> \o rest[1])>> \o Tail(rest)
         ELSE <<(<<l[1]>>)>> \o rest

\* The argument vector a trailing-'&' rule would hand to exec.
TrailingAmpOnly(v) ==
    LET n == Len(v) IN
    IF n = 0 THEN v
    ELSE IF v[n] = <<"&">> THEN SubSeq(v, 1, n - 1)
    ELSE IF IsAmpToken(v[n])
    THEN [v EXCEPT ![n] = SubSeq(v[n], 1, Len(v[n]) - 1)]
    ELSE v

\* C7: an invocation is background exactly when its final token is "&" or
\* ends in '&'; only that token is removed or shortened, and every other
\* token reaches exec unchanged.
C7_TrailingAmpOnly ==
    [][(PDetect /\ Len(argv) > 0)
          => /\ is_background' = IsAmpToken(argv[Len(argv)])
             /\ argv' = TrailingAmpOnly(argv)]_vars

\* The condition under which do_builtin is said to report "handled".
HandledByName(v) ==
    /\ Len(v) > 0
    /\ \/ v[1] \in {Str_cd, Str_history, Str_pwd, Str_jobs}
       \/ (v[1] = Str_ls /\ Len(v) = 1)

Dispatched == pc \in {"skip", "exit", "builtin", "exec"}

\* C8 as stated: do_builtin reports handled exactly for cd, history, pwd,
\* jobs and a bare ls, and every other vector is reported not handled and
\* passed on to execute_command.
C8_AsStated ==
    (Dispatched /\ pc # "skip")
       => /\ (pc = "builtin") = HandledByName(argv)
          /\ ~HandledByName(argv) => (pc = "exec" /\ builtin = "none")

\* C8, amended: as stated for every vector whose first token is not "exit";
\* for "exit" do_builtin does not return (the process ends) and
\* execute_command is not called.
C8_HandledExactly ==
    (Dispatched /\ pc # "skip")
       => /\ (pc = "builtin") = HandledByName(argv)
          /\ (pc = "builtin") = (builtin \in {"cd", "history", "pwd", "ls",
                                              "jobs"})
          /\ (pc = "exit") = (Len(argv) > 0 /\ argv[1] = Str_exit)
          /\ (~HandledByName(argv) /\ pc # "exit")
                => (pc = "exec" /\ builtin = "none")

\* "ls a" was not handled and is on its way to execute_command.
C8_Witness ==
    /\ pc = "exec"
    /\ argv = <<Str_ls, <<"a">>>>
    /\ builtin = "none"

\* C9: cmd_parse returns exactly the maximal runs of non-delimiter
\* characters of the line, each non-empty, in order, whatever their number.
C9_ParseIsRuns ==
    pc = "parsed"
       => /\ argv = Runs(line)
          /\ \A k \in DOMAIN argv : argv[k] # << >>

\* ------------------------------------------------------------------------
\* Process groups and the terminal, as execute_command uses them.
\* ------------------------------------------------------------------------
PreExec == {"c_setpgid", "c_tcsetpgrp", "c_signal", "c_exec"}

\* setpgid(p, g) called by the parent (lab.c:347, 353): it moves a child
\* that has not yet called exec; afterwards it fails (EACCES, ESRCH).
setpgid_parent(pr, p, g) ==
    IF pr[p].st \in PreExec THEN [pr EXCEPT ![p].pgid = g] ELSE pr

\* tcsetpgrp(sh->shell_terminal, g) (lab.c:329, 348, 350): the callers
\* ignore SIGTTOU, so the call takes effect whenever g is a process group
\* of the session.
GroupExists(pr, g) ==
    g = ShellPid \/ \E p \in Pids : pr[p].st # "free" /\ pr[p].pgid = g

tcsetpgrp(pr, fgrp, g) == IF GroupExists(pr, g) THEN g ELSE fgrp

\* waitpid(p, &status, WUNTRACED) (lab.c:349): whether it returns now, and
\* the processes afterwards.  It returns for a child that has exited (and
\* reaps it) or that is stopped (the shell waits for a child once, so a stop
\* is never reported twice).
\* (waitpid_untraced_nohang: a wait that returns at once.)
waitpid_untraced_nohang(pr, p) ==
    IF pr[p].st = "zombie"
    THEN [ready |-> TRUE, proc |-> [pr EXCEPT ![p] = FreeProc]]
    ELSE [ready |-> TRUE, proc |-> pr]

waitpid_untraced(pr, p) ==
    IF pr[p].st = "zombie"
    THEN [ready |-> TRUE, proc |-> [pr EXCEPT ![p] = FreeProc]]
    ELSE [ready |-> pr[p].st = "stopped", proc |-> pr]

\* The display string of a background job (lab.c:354-359).
RECURSIVE JoinArgs(_)
JoinArgs(v) ==
    IF v = << >> THEN <<"&">>
    ELSE v[1] \o <<SP>> \o JoinArgs(Tail(v))

\* change_dir (lab.c:374-406): its value, given whether the directory can
\* be entered and read back (chdir, getcwd); on -1 it has called perror.
change_dir(v, ok) == IF ok THEN 0 ELSE -1

\* Where execute_command goes on the value fork returned to the parent
\* (lab.c:341-351).
\* (ParentBranch_unchecked: an execute_command without the test pid < 0.)
ParentBranch_unchecked(p, is_bg) ==
    IF ~is_bg THEN "fg_setpgid" ELSE "bg_setpgid"

\* (ParentBranch_exits: an execute_command that ends the shell when fork
\* fails.)
ParentBranch_exits(p, is_bg) ==
    IF p < 0 THEN "exited"
    ELSE IF ~is_bg THEN "fg_setpgid"
    ELSE "bg_setpgid"

ParentBranch(p, is_bg) ==
    IF p < 0 THEN "poll"                                   \* lab.c:341-342
    ELSE IF ~is_bg THEN "fg_setpgid"                       \* lab.c:345
    ELSE "bg_setpgid"                                      \* lab.c:351

\* ------------------------------------------------------------------------
\* The session: Spec.  The state after sh_init in an interactive shell
\* (lab.c:415-440): the shell leads its own process group, that group is
\* the terminal's foreground group, the job table is empty.
\*
\* pc follows the shell through main's loop and execute_command:
\*   "poll"          main.c:67      update_job_status
\*   "read"          main.c:69-94   readline, trim, parse, do_builtin
\*   "exec"          lab.c:303-323  execute_command up to the fork
\*   "fg_setpgid"    lab.c:347      "fg_tcsetpgrp"  lab.c:348
\*   "fg_wait"       lab.c:349      "fg_restore"    lab.c:350
\*   "bg_setpgid"    lab.c:353      "bg_add"        lab.c:354-361
\*   "exited"        the shell process has ended (main.c:73, lab.c:255)
\* ------------------------------------------------------------------------
Lines ==
    { << >>,                          \* an empty line
      <<SP, VT>>,                     \* white space only
      <<BEL>>,                        \* no white space, no token
      <<"t">>,                        \* a foreground command
      <<"s", SP, "&">>,               \* a background command
      Str_ls,
      Str_jobs,
      Str_cd,
      Str_exit }

JobVars == <<jobs, next_job_id, notices, polled_done>>

Init ==
    /\ pc = "poll"
    /\ line = << >>
    /\ argv = << >>
    /\ builtin = "none"
    /\ is_background = FALSE
    /\ pid = 0
    /\ job_id = 0
    /\ jobs = initialize_jobs
    /\ next_job_id = 1
    /\ proc = [p \in Pids |-> FreeProc]
    /\ tfg = ShellPid
    /\ notices = << >>
    /\ polled_done = FALSE
    /\ last = "other"
    /\ jobs0 = initialize_jobs
    /\ diag = "none"
    /\ ign = JobControlSignals                             \* lab.c:433-437

\* main.c:67.  A new iteration starts: what the last one recorded of its
\* builtin, of the values of fork and add_job and of its diagnostics is
\* forgotten.
SUpdate ==
    /\ pc = "poll"
    /\ LET u == update_job_status(jobs, proc) IN
       /\ jobs' = u.jobs
       /\ proc' = u.proc
       /\ notices' = Noted(u)
       /\ polled_done' = (polled_done \/ PolledDone(u))
    /\ pc' = "read"
    /\ builtin' = "none"
    /\ job_id' = 0
    /\ pid' = 0
    /\ diag' = "none"
    /\ UNCHANGED <<line, argv, is_background, next_job_id, tfg, last, jobs0, ign>>

\* main.c:69-74: end of input.
SEof ==
    /\ pc = "read"
    /\ pc' = "exited"
    /\ UNCHANGED <<line, argv, builtin, is_background, pid, job_id, JobVars,
                   proc, tfg, last, jobs0, diag, ign>>

\* main.c:69-97 for a line l, up to the call of execute_command.  The
\* builtins change nothing of this state ("jobs" prints print_jobs(jobs));
\* "cd" reports a failure of change_dir and returns true all the same
\* (lab.c:256-258).
SReadLine(l) ==
    /\ pc = "read"
    /\ \E d \in {MainDispatch(l)} :
       /\ builtin' = d.name
       /\ pc' = CASE d.kind = "exec" -> "exec"
                  [] d.kind = "exit" -> "exited"
                  [] OTHER -> "poll"
       /\ argv' = IF d.kind = "exec" THEN d.argv ELSE << >>
       /\ \E ok \in BOOLEAN :
             diag' = IF d.name = "cd" /\ change_dir(d.argv, ok) = -1
                     THEN "cd" ELSE "none"
    /\ UNCHANGED <<line, is_background, pid, job_id, JobVars, proc, tfg, last,
                   jobs0, ign>>

\* lab.c:304-306, then main.c:91-97.
SExecEmpty ==
    /\ pc = "exec"
    /\ ReturnsEarly(argv)
    /\ pc' = "poll"
    /\ argv' = << >>
    /\ UNCHANGED <<line, builtin, is_background, pid, job_id, JobVars, proc, tfg,
                   last, jobs0, diag, ign>>

\* Where the child starts after fork (lab.c:326-330): a foreground child at
\* its setpgid, a background child at its signal calls.
\* (ChildStart_takes_terminal: a child without the test !is_background.)
ChildStart_takes_terminal(is_bg) == "c_setpgid"

\* (ChildStart_skips_group: a child that leaves setpgid and tcsetpgrp to
\* the parent.)
ChildStart_skips_group(is_bg) == "c_signal"

ChildStart(is_bg) == IF ~is_bg THEN "c_setpgid" ELSE "c_signal"

\* Whether the job table still holds pid p.
Named(p) == \E i \in Slots : jobs[i].job_id # 0 /\ jobs[i].pid = p

\* lab.c:308-323 with fork returning p to the parent; the child starts at
\* lab.c:326 in the shell's process group, with the shell's dispositions
\* (what the shell ignores the child ignores).
\* Free pids differ only in whether the job table still holds them: fork
\* returns the lowest free pid the table holds or the lowest it does not.
SFork(p) ==
    /\ pc = "exec"
    /\ ~ReturnsEarly(argv)
    /\ proc[p].st = "free"
    /\ \A q \in 1..(p - 1) : proc[q].st = "free" => Named(q) # Named(p)
    /\ LET d == DetectBackground(argv) IN
       /\ argv' = d.argv
       /\ is_background' = d.is_background
       /\ proc' = [proc EXCEPT ![p] =
                     [st |-> ChildStart(d.is_background),
                      pgid |-> ShellPid, fg |-> ~d.is_background,
                      dfl |-> JobControlSignals \ ign]]
       /\ pc' = ParentBranch(p, d.is_background)
    /\ pid' = p
    /\ UNCHANGED <<line, builtin, job_id, JobVars, tfg, last, jobs0, diag, ign>>

\* lab.c:308-323, 341-342 with fork failing (it returns -1 and there is no
\* child), then main.c:91-97.
SForkFail ==
    /\ pc = "exec"
    /\ ~ReturnsEarly(argv)
    /\ pid' = -1
    /\ pc' = ParentBranch(-1, DetectBackground(argv).is_background)
    /\ diag' = "fork"                                      \* lab.c:342
    /\ argv' = << >>
    /\ is_background' = FALSE
    /\ UNCHANGED <<line, builtin, job_id, JobVars, proc, tfg, last, jobs0, ign>>

\* lab.c:347.
SFgSetpgid ==
    /\ pc = "fg_setpgid"
    /\ proc' = setpgid_parent(proc, pid, pid)
    /\ pc' = "fg_tcsetpgrp"
    /\ UNCHANGED <<line, argv, builtin, is_background, pid, job_id, JobVars,
                   tfg, last, jobs0, diag, ign>>

\* lab.c:348.
SFgTcsetpgrp ==
    /\ pc = "fg_tcsetpgrp"
    /\ tfg' = tcsetpgrp(proc, tfg, pid)
    /\ pc' = "fg_wait"
    /\ UNCHANGED <<line, argv, builtin, is_background, pid, job_id, JobVars,
                   proc, last, jobs0, diag, ign>>

\* lab.c:349.
SFgWait ==
    /\ pc = "fg_wait"
    /\ LET w == waitpid_untraced(proc, pid) IN
       /\ w.ready
       /\ proc' = w.proc
    /\ pc' = "fg_restore"
    /\ UNCHANGED <<line, argv, builtin, is_background, pid, job_id, JobVars,
                   tfg, last, jobs0, diag, ign>>

\* lab.c:350, 365, then main.c:91-97.
SFgRestore ==
    /\ pc = "fg_restore"
    /\ tfg' = tcsetpgrp(proc, tfg, ShellPid)
    /\ pc' = "poll"
    /\ argv' = << >>
    /\ pid' = 0
    /\ UNCHANGED <<line, builtin, is_background, job_id, JobVars, proc, last,
                   jobs0, diag, ign>>

\* lab.c:353.
SBgSetpgid ==
    /\ pc = "bg_setpgid"
    /\ proc' = setpgid_parent(proc, pid, pid)
    /\ pc' = "bg_add"
    /\ UNCHANGED <<line, argv, builtin, is_background, pid, job_id, JobVars,
                   tfg, last, jobs0, diag, ign>>

\* lab.c:354-361, 365, then main.c:91-97.
SBgAdd ==
    /\ pc = "bg_add"
    /\ LET a == add_job(jobs, next_job_id, pid, JoinArgs(argv), TRUE) IN
       /\ jobs' = a.jobs
       /\ next_job_id' = a.next_job_id
       /\ job_id' = a.ret
       /\ notices' = Registered(notices, a)
    /\ pc' = "poll"
    /\ argv' = << >>
    /\ pid' = 0
    /\ is_background' = FALSE
    /\ UNCHANGED <<line, builtin, polled_done, proc, tfg, last, jobs0, diag, ign>>

ChildVars == <<pc, line, argv, builtin, is_background, pid, job_id, JobVars,
               last, jobs0, diag, ign>>

\* lab.c:328, in the child.
CSetpgid(p) ==
    /\ proc[p].st = "c_setpgid"
    /\ proc' = [proc EXCEPT ![p].pgid = p, ![p].st = "c_tcsetpgrp"]
    /\ UNCHANGED <<ChildVars, tfg>>

\* lab.c:329, in the child.
CTcsetpgrp(p) ==
    /\ proc[p].st = "c_tcsetpgrp"
    /\ tfg' = tcsetpgrp(proc, tfg, p)
    /\ proc' = [proc EXCEPT ![p].st = "c_signal"]
    /\ UNCHANGED ChildVars

\* lab.c:331-335, in the child.
CSignal(p) ==
    /\ proc[p].st = "c_signal"
    /\ proc' = [proc EXCEPT ![p].dfl = ResetSignals(@), ![p].st = "c_exec"]
    /\ UNCHANGED <<ChildVars, tfg>>

\* lab.c:337-340, in the child: execvp replaces the image, or fails and the
\* child exits.
CExec(p, ok) ==
    /\ proc[p].st = "c_exec"
    /\ proc' = [proc EXCEPT ![p].st = IF ok THEN "running" ELSE "zombie"]
    /\ UNCHANGED <<ChildVars, tfg>>

\* The external command ends or is stopped by a signal.  The shell tells a
\* stopped child from a running one only through the wait of lab.c:349,
\* which is for a foreground child: a background child that is stopped is
\* not told apart from one that runs.  The shell never continues a stopped
\* child (it has no fg or bg builtin, lab.c:250-292): a stopped child stays
\* stopped until it is killed.
CExit(p) ==
    /\ proc[p].st \in {"running", "stopped"}
    /\ proc' = [proc EXCEPT ![p].st = "zombie"]
    /\ UNCHANGED <<ChildVars, tfg>>

CStop(p) ==
    /\ proc[p].st = "running"
    /\ proc[p].fg
    /\ proc' = [proc EXCEPT ![p].st = "stopped"]
    /\ UNCHANGED <<ChildVars, tfg>>

ShellStep ==
    \/ SUpdate
    \/ SEof
    \/ \E l \in Lines : SReadLine(l)
    \/ SExecEmpty
    \/ \E p \in Pids : SFork(p)
    \/ SForkFail
    \/ SFgSetpgid
    \/ SFgTcsetpgrp
    \/ SFgWait
    \/ SFgRestore
    \/ SBgSetpgid
    \/ SBgAdd

ChildStep ==
    \E p \in Pids :
       \/ CSetpgid(p)
       \/ CTcsetpgrp(p)
       \/ CSignal(p)
       \/ \E ok \in BOOLEAN : CExec(p, ok)
       \/ CExit(p)
       \/ CStop(p)

Next == ShellStep \/ ChildStep

Spec == Init /\ [][Next]_vars

\* The session with the shell scheduled: at the top of the loop the polling
\* pass, which never blocks, is eventually run.
FairSpec == Spec /\ WF_pc(SUpdate)

\* ------------------------------------------------------------------------
\* Claims on the session (Spec, FairSpec).
\* ------------------------------------------------------------------------
\* A registered job that is not yet marked done and whose process has exited.
ExitedUnreported(i) ==
    /\ Occupied(i) /\ ~jobs[i].is_done
    /\ proc[jobs[i].pid].st = "zombie"

\* C5: a background launch never waits for its child; the first polling
\* pass after a registered job's process has exited marks it done and
\* prints its notice; a registered job whose process has exited stays so
\* until it is marked done, and if the loop keeps reaching its polling pass
\* then again and again no registered job is left exited and unreported: so
\* every registered job that exits is eventually reported done.
C5_NeverBlocks ==
    /\ pc = "bg_setpgid" => ENABLED SBgSetpgid
    /\ pc = "bg_add" => ENABLED SBgAdd

C5_NextPass ==
    (pc = "poll" /\ pc' = "read")
       => \A i \in Slots :
             ExitedUnreported(i)
                => /\ jobs'[i].is_done
                   /\ notices'[jobs[i].job_id] = notices[jobs[i].job_id] + 1

C5_StaysUntilDone ==
    \A i \in Slots :
       ExitedUnreported(i) => (ExitedUnreported(i)' \/ jobs'[i].is_done)

C5_Eventually ==
    ([]<>(pc = "poll")) => []<>(\A i \in Slots : ~ExitedUnreported(i))

C5_BackgroundReported ==
    /\ [](C5_NeverBlocks)
    /\ [][C5_NextPass /\ C5_StaysUntilDone]_vars
    /\ C5_Eventually

\* The shell is back at its prompt after a background launch whose child
\* still runs, and an earlier job has been reported done.
C5_Witness ==
    /\ pc = "read"
    /\ \E i, j \in Slots :
          /\ Occupied(i) /\ jobs[i].is_done /\ notices[jobs[i].job_id] = 1
          /\ Occupied(j) /\ ~jobs[j].is_done
          /\ proc[jobs[j].pid].st = "running"

\* C6: a foreground execute_command whose fork succeeded returns only
\* through its wait, the wait ends only on a child that has exited or is
\* stopped, and at the return the terminal's foreground group is the
\* shell's.
C6_ForegroundWaits ==
    [][/\ pc \in {"fg_setpgid", "fg_tcsetpgrp", "fg_wait"} => pc' # "poll"
       /\ (pc = "fg_wait" /\ pc' # pc)
             => proc[pid].st \in {"zombie", "stopped"}
       /\ (pc = "fg_restore" /\ pc' # pc)
             => (pc' = "poll" /\ tfg' = ShellPid)]_vars

\* A foreground launch has returned because its child stopped, after the
\* child had taken the terminal.
C6_Witness ==
    /\ pc = "poll"
    /\ tfg = ShellPid
    /\ \E p \in Pids : proc[p].fg /\ proc[p].st = "stopped" /\ proc[p].pgid = p

\* C10: a line that yields no command (white space only, or an empty
\* argument vector) dispatches nothing: no builtin runs, nothing is forked,
\* and the job table and the terminal's foreground group are unchanged.
YieldsNoCommand(l) ==
    \/ \A k \in DOMAIN l : IsSpace(l[k])
    \/ Runs(trim_white(l)) = << >>

Quiet ==
    /\ UNCHANGED <<jobs, next_job_id, notices, proc, tfg>>
    /\ builtin' = "none"

C10_NothingDispatched ==
    [][/\ \A l \in Lines :
             (YieldsNoCommand(l) /\ SReadLine(l))
                => /\ Quiet
                   /\ pc' = "poll" \/ (pc' = "exec" /\ argv' = << >>)
       /\ (pc = "exec" /\ argv = << >> /\ pc' # pc)
             => (Quiet /\ pc' = "poll")]_vars

\* execute_command has been called with an empty argument vector.
C10_Witness == pc = "exec" /\ argv = << >>

\* C11: when fork fails in execute_command (it returns -1) the failure is
\* reported and execute_command returns with nothing else done: no slot of
\* the job table and not next_job_id changes, no process is waited for
\* (none is reaped, no job is polled) and the terminal's foreground group
\* is unchanged.
C11_ForkFailureQuiet ==
    [][(pid # -1 /\ pid' = -1)
          => /\ pc = "exec" /\ pc' = "poll"
             /\ diag' = "fork"
             /\ UNCHANGED <<jobs, next_job_id, notices, polled_done, proc,
                            tfg>>]_vars

\* A fork has failed while a registered background job was still running.
C11_Witness ==
    /\ pc = "poll" /\ pid = -1 /\ diag = "fork"
    /\ \E i \in Slots :
          /\ Occupied(i) /\ ~jobs[i].is_done
          /\ proc[jobs[i].pid].st = "running"

\* C12: a background launch on a full job table.  The child has been
\* forked and is left alone, add_job gives -1, no slot and not next_job_id
\* changes; from then on the process is untracked: no polling pass calls
\* waitpid for its pid, it is never reaped, and no line of print_jobs shows
\* its pid.
Untracked(p) ==
    /\ proc[p].st # "free" /\ ~proc[p].fg
    /\ ~(pid = p /\ pc \in {"bg_setpgid", "bg_add"})
    /\ ~\E i \in Slots : Occupied(i) /\ ~jobs[i].is_done /\ jobs[i].pid = p

C12_FullStep ==
    (pc = "bg_add" /\ TableFull /\ pc' # pc)
       => /\ job_id' = -1
          /\ UNCHANGED <<jobs, next_job_id, proc>>
          /\ \A p \in Pids :
                p = pid => (proc[p].st # "free" /\ Untracked(p)')

C12_UntrackedStep ==
    \A p \in Pids :
       Untracked(p)
          => /\ Untracked(p)'
             /\ (pc = "poll" /\ pc' = "read")
                   => \A i \in update_job_status(jobs, proc).polled :
                         jobs[i].pid # p

C12_NotListed ==
    \A p \in Pids :
       Untracked(p)
          => \A k \in DOMAIN print_jobs(jobs) : print_jobs(jobs)[k].pid # p

C12_FullTableUntracked ==
    /\ [][C12_FullStep /\ C12_UntrackedStep]_vars
    /\ [](C12_NotListed)

\* execute_command has returned from a background launch on a full table,
\* the child runs under a pid that a done job of the table once had.
C12_Witness ==
    /\ pc = "poll" /\ job_id = -1 /\ TableFull
    /\ \E p \in Pids :
          /\ Untracked(p) /\ proc[p].st = "running"
          /\ \E i \in Slots : jobs[i].is_done /\ jobs[i].pid = p

\* C13: a recoverable error (fork fails, change_dir fails, add_job finds
\* the table full) does not end the session loop: the step in which it
\* happens returns to the top of the loop, where the polling pass can run,
\* and with the polling pass scheduled the shell reaches the next line read.
C13_ErrorStep ==
    \/ diag' # "none" /\ diag' # diag
    \/ job_id' = -1 /\ job_id # -1

C13_Recovered == pc = "poll" /\ (diag # "none" \/ job_id = -1)

C13_LoopSurvives ==
    /\ [][C13_ErrorStep => (pc' = "poll" /\ C13_Recovered')]_vars
    /\ [](C13_Recovered => ENABLED SUpdate)
    /\ (C13_Recovered ~> (pc = "read"))

\* The builtin cd has failed and the shell is at the top of its loop.
C13_Witness == pc = "poll" /\ builtin = "cd" /\ diag = "cd"

\* C14: a background invocation never transfers terminal control.  While
\* execute_command is in its background branch the terminal's foreground
\* group is the shell's; no step of a background child and no step of that
\* branch changes it; and the foreground group is never the group of a
\* background child: it differs from the shell's group only while a
\* foreground launch is under way.
FgStages == {"fg_setpgid", "fg_tcsetpgrp", "fg_wait", "fg_restore"}

BgStages == {"bg_setpgid", "bg_add"}

C14_State ==
    /\ pc \notin FgStages => tfg = ShellPid
    /\ \A p \in Pids : (proc[p].st # "free" /\ ~proc[p].fg) => tfg # p

C14_Step ==
    (\/ pc \in BgStages
     \/ pc' \in BgStages
     \/ \E p \in Pids : proc'[p] # proc[p] /\ ~proc[p].fg /\ ~proc'[p].fg)
       => tfg' = tfg

C14_BackgroundKeepsTerminal == [](C14_State) /\ [][C14_Step]_vars

\* A background launch is under way, its child already runs the external
\* command in its own group, and the terminal is the shell's.
C14_Witness ==
    /\ pc = "bg_add" /\ tfg = ShellPid
    /\ \E p \in Pids : p = pid /\ proc[p].st = "running" /\ proc[p].pgid = p

\* C15: after sh_init the shell ignores all five job-control signals in
\* every state in which it runs; and a child, foreground or background,
\* execs (and so runs the external command) only with all five at their
\* default disposition, although it started with them ignored.
C15_State ==
    /\ pc # "exited" => ign = JobControlSignals
    /\ \A p \in Pids :
          proc[p].st \in {"c_exec", "running", "stopped"}
             => proc[p].dfl = JobControlSignals

C15_Step ==
    \A p \in Pids :
       /\ (proc[p].st = "free" /\ proc'[p].st # "free") => proc'[p].dfl = {}
       /\ (proc[p].st # "running" /\ proc'[p].st = "running")
             => (proc[p].st = "c_exec" /\ proc[p].dfl = JobControlSignals)

C15_SignalDispositions == [](C15_State) /\ [][C15_Step]_vars

\* A foreground child and a background child both run their external
\* commands.
C15_Witness ==
    \E p, q \in Pids :
       /\ proc[p].st = "running" /\ proc[p].fg
       /\ proc[q].st = "running" /\ ~proc[q].fg

\* C16: in a foreground launch, whatever the interleaving, the child is in
\* its own process group and that group is the terminal's foreground group
\* from before its signal calls until its exec; and the foreground group is
\* the shell's again when execute_command has returned, so before the next
\* line is read.
C16_State ==
    /\ \A p \in Pids :
          (proc[p].fg /\ proc[p].st \in {"c_signal", "c_exec"})
             => (proc[p].pgid = p /\ tfg = p)
    /\ pc \in {"poll", "read"} => tfg = ShellPid

C16_Step ==
    /\ \A p \in Pids :
          (proc[p].fg /\ proc[p].st = "c_exec" /\ proc'[p].st # "c_exec")
             => (proc[p].pgid = p /\ tfg = p)
    /\ (pc \in FgStages /\ pc' \notin FgStages)
          => (pc = "fg_restore" /\ pc' = "poll" /\ tfg' = ShellPid)

C16_TerminalSequencing == [](C16_State) /\ [][C16_Step]_vars

\* The foreground child is at its exec, in its own group and holding the
\* terminal, before the parent has made any of its own calls.
C16_Witness ==
    /\ pc = "fg_setpgid"
    /\ \E p \in Pids :
          /\ p = pid /\ proc[p].fg /\ proc[p].st = "c_exec"
          /\ proc[p].pgid = p /\ tfg = p

\* C17 (SpecJobs): next_job_id starts at 1 and never decreases; it changes
\* only in a successful add_job call, by one, and that call returns the old
\* value, which no occupied slot holds; so the ids returned are 1, 2, 3, ...
\* whatever remove_job and update_job_status calls come between, and an id
\* once returned is below next_job_id for ever and is never returned again.
C17_State ==
    /\ next_job_id >= 1
    /\ \A i \in Slots : Occupied(i) => jobs[i].job_id < next_job_id
    /\ (last = "add" /\ job_id # -1) => job_id = next_job_id - 1
    /\ (next_job_id = 1) => jobs = initialize_jobs

C17_Step ==
    /\ next_job_id' >= next_job_id
    /\ next_job_id' # next_job_id
          => (AddJobStep /\ job_id' # -1)
    /\ (AddJobStep /\ job_id' # -1)
          => /\ job_id' = next_job_id
             /\ next_job_id' = next_job_id + 1
             /\ \A i \in Slots : jobs[i].job_id # job_id'

C17_IdsMonotone == [](C17_State) /\ [][C17_Step]_vars

\* The third successful add_job call has returned 3 and put the job in the
\* first slot, which an earlier job had held.
C17_Witness == last = "add" /\ job_id = 3 /\ jobs[1].job_id = 3

\* C18 (Spec): the session never calls remove_job.  A slot that is occupied
\* stays occupied by the same job (id, pid, command) whatever the shell and
\* the children do, also once the job is marked done; so the number of
\* occupied slots is the number of ids handed out, a full table stays full,
\* and every background launch that reaches add_job on a full table gets -1,
\* changes no slot and leaves its child running outside the table.
C18_SlotKept ==
    \A i \in Slots :
       Occupied(i)
          => /\ jobs'[i].job_id = jobs[i].job_id
             /\ jobs'[i].pid = jobs[i].pid
             /\ jobs'[i].command = jobs[i].command
             /\ jobs[i].is_done => jobs'[i].is_done

C18_FullStep ==
    (TableFull /\ pc = "bg_add" /\ pc' # pc)
       => /\ job_id' = -1
          /\ jobs' = jobs
          /\ \A p \in Pids :
                p = pid => \A i \in Slots : jobs'[i].is_done \/ jobs'[i].pid # p

C18_State ==
    /\ Cardinality({i \in Slots : Occupied(i)}) = next_job_id - 1
    /\ (next_job_id = MAX_JOBS + 1) => TableFull
    /\ (job_id = -1) => TableFull

C18_NoRemoval == [](C18_State) /\ [][C18_SlotKept /\ C18_FullStep]_vars

\* Every job of the full table is marked done, none of the slots has been
\* given up, and the background launch that followed got -1.
C18_Witness ==
    /\ pc = "poll" /\ job_id = -1
    /\ next_job_id = MAX_JOBS + 1
    /\ \A i \in Slots : Occupied(i) /\ jobs[i].is_done

\* C19 (Spec): no child executes the external command while it is still a
\* member of the shell's process group: at the step in which execvp
\* succeeds the child is in the group it leads, and a child that runs or is
\* stopped is never in the shell's group.
C19_ExecStep ==
    \A p \in Pids :
       (proc[p].st = "c_exec" /\ proc'[p].st = "running")
          => proc[p].pgid = p /\ proc[p].pgid # ShellPid

C19_OwnGroup ==
    \A p \in Pids :
       proc[p].st \in {"running", "stopped"} => proc[p].pgid # ShellPid

C19_OwnGroupBeforeExec == [](C19_OwnGroup) /\ [][C19_ExecStep]_vars

\* The same for foreground children only, which call setpgid themselves
\* (lab.c:328).
C19_ForegroundOwnGroup ==
    \A p \in Pids :
       (proc[p].st \in {"running", "stopped"} /\ proc[p].fg)
          => proc[p].pgid = p

\* C20 (SpecParse): whenever execute_command goes on to fork (lab.c:323),
\* the argument vector left by background detection has a first element and
\* that element is a non-empty command name; a vector that detection leaves
\* without a command name makes execute_command return before the fork.
C20_State ==
    (pc = "detected") => (Len(argv) > 0 /\ Len(argv[1]) > 0)

C20_Step ==
    (pc = "exec" /\ pc' # pc
        /\ LET d == DetectBackground(argv) IN
           d.argv = << >> \/ d.argv[1] = << >>)
       => pc' = "returned"

C20_CommandNameKept == [](C20_State) /\ [][C20_Step]_vars

====
